---- MODULE Spec2Model ----
(***************************************************************************)
(* echo-anki: a command line flashcard generator.  One run classifies the  *)
(* target text, asks a text-generation service for a sentence, a           *)
(* definition and a translation, asks a speech service for audio, writes   *)
(* the audio to speech_files/ and submits notes to a local AnkiConnect     *)
(* store.  The repository holds three generations of the run controller:   *)
(*   "index"     src/index.js          (word prompts only)                  *)
(*   "part_002"  src/unnamed/part_002  (adds determineInputType)            *)
(*   "part_001"  src/unnamed/part_001  (ElevenLabs, quoted branch,          *)
(*                                      bilingual note)                     *)
(* A JavaScript string is modelled as a sequence of one-character strings. *)
(***************************************************************************)
EXTENDS Integers, Sequences, FiniteSets, TLC

----------------------------------------------------------------------------
(* Character classes of the regular expressions used by the code.          *)

UpperCase == {"C", "L"}
LowerCase == {"a", "b", "c", "d", "e", "h", "i", "l", "n", "o", "r", "s", "t", "u"}
Digit == {"2"}
\* \w : ASCII letters, digits and underscore
WordChar == UpperCase \cup LowerCase \cup Digit \cup {"_"}
\* \s
WhiteSpace == {" ", "\n"}
\* line terminators, which the regular expression "." does not match
LineTerminator == {"\n"}
\* a letter outside ASCII: not matched by \w nor by [a-zA-Z0-9\-]
NonAsciiLetter == {"é"}
Quote == "\""

toLowerCase(c) == IF c = "C" THEN "c" ELSE IF c = "L" THEN "l" ELSE c

\* comparison of two characters under the regular expression flag i
SameCharIgnoreCase(a, b) == toLowerCase(a) = toLowerCase(b)

RECURSIVE trimStart(_)
trimStart(s) == IF s # <<>> /\ Head(s) \in WhiteSpace THEN trimStart(Tail(s)) ELSE s

RECURSIVE trimEnd(_)
trimEnd(s) ==
    IF s # <<>> /\ s[Len(s)] \in WhiteSpace THEN trimEnd(SubSeq(s, 1, Len(s) - 1)) ELSE s

trim(s) == trimEnd(trimStart(s))

startsWith(s, c) == s # <<>> /\ s[1] = c
endsWith(s, c) == s # <<>> /\ s[Len(s)] = c

\* String.prototype.includes
includes(s, sub) ==
    \E i \in 1..(Len(s) - Len(sub) + 1) : SubSeq(s, i, i + Len(sub) - 1) = sub

\* /^[\w\-']+$/i
IsSingleWord(s) ==
    /\ Len(s) >= 1
    /\ \A i \in 1..Len(s) : s[i] \in WordChar \cup {"-", "'"}

\* /[.!?]$/
EndsWithTerminator(s) == Len(s) >= 1 /\ s[Len(s)] \in {".", "!", "?"}

\* \b at the gap before position p (1..Len(s)+1)
WordBoundary(s, p) ==
    LET before == p > 1 /\ s[p - 1] \in WordChar
        after == p <= Len(s) /\ s[p] \in WordChar
    IN  before # after

\* /\b\w+\b.*\b\w+\b/i : two maximal runs of word characters on one line
HasTwoWordTokens(s) ==
    \E j \in 1..Len(s) : \E k \in 1..Len(s) :
        /\ j < k
        /\ s[j] \in WordChar /\ WordBoundary(s, j + 1)
        /\ s[k] \in WordChar /\ WordBoundary(s, k)
        /\ \A m \in (j + 1)..(k - 1) : s[m] \notin LineTerminator

determineInputType(input) ==
    LET trimmedInput == trim(input)
    IN  IF IsSingleWord(trimmedInput) THEN "word"
        ELSE IF EndsWithTerminator(trimmedInput) /\ HasTwoWordTokens(trimmedInput)
             THEN "sentence"
             ELSE "phrase"

----------------------------------------------------------------------------
(* createFilePath: the file name derived from the sentence.                *)

\* sentence.replace(/\s+/g, "-")
RECURSIVE ReplaceWhiteSpaceRuns(_)
ReplaceWhiteSpaceRuns(s) ==
    IF s = <<>> THEN <<>>
    ELSE IF Head(s) \in WhiteSpace
         THEN <<"-">> \o ReplaceWhiteSpaceRuns(trimStart(s))
         ELSE <<Head(s)>> \o ReplaceWhiteSpaceRuns(Tail(s))

IsFileNameChar(c) == c \in UpperCase \cup LowerCase \cup Digit \cup {"-"}

\* .replace(/[^a-zA-Z0-9\-]/g, "")
RemoveUnsafeChars(s) == SelectSeq(s, IsFileNameChar)

FileName(sentence) == RemoveUnsafeChars(ReplaceWhiteSpaceRuns(sentence)) \o <<".mp3">>

\* path.join(destDir, fileName)
createFilePathResult(sentence) == <<"speech_files", "/">> \o FileName(sentence)

----------------------------------------------------------------------------
(* callChatGPT and the post-processing of translateSentence.               *)

\* content.endsWith(".") ? content.slice(0, -1) : content
StripTrailingPeriod(content) ==
    IF endsWith(content, ".") THEN SubSeq(content, 1, Len(content) - 1) ELSE content

\* translation.match(/"(.*?)"/g): the quoted segments, left to right
RECURSIVE QuotedSegments(_, _)
QuotedSegments(s, from) ==
    LET opens == {i \in from..Len(s) : s[i] = Quote}
    IN  IF opens = {} THEN <<>>
        ELSE LET i == CHOOSE x \in opens : \A y \in opens : x <= y
                 closes == {j \in (i + 1)..Len(s) : s[j] = Quote}
             IN  IF closes = {} THEN <<>>
                 ELSE LET j == CHOOSE x \in closes : \A y \in closes : x <= y
                      IN  IF \E m \in (i + 1)..(j - 1) : s[m] \in LineTerminator
                          THEN QuotedSegments(s, i + 1)
                          ELSE <<SubSeq(s, i, j)>> \o QuotedSegments(s, j + 1)

TranslatesTo ==
    <<"t", "r", "a", "n", "s", "l", "a", "t", "e", "s", " ", "t", "o">>

\* the clean-up translateSentence applies to the reply (part_001 only)
CleanTranslation(reply) ==
    LET matches == QuotedSegments(reply, 1)
        extracted == IF includes(reply, TranslatesTo) /\ Len(matches) > 1
                     THEN matches[Len(matches)]
                     ELSE reply
    IN  IF startsWith(extracted, Quote) /\ endsWith(extracted, Quote)
        THEN SubSeq(extracted, 2, Len(extracted) - 1)
        ELSE extracted

----------------------------------------------------------------------------
(* Highlighting of the target text.                                        *)

Bold(targetText) == <<"<b>">> \o targetText \o <<"</b>">>

\* whether the literal (escaped) target matches s at position i, flags gi
LiteralMatchAt(s, i, targetText, isWord) ==
    /\ i + Len(targetText) - 1 <= Len(s)
    /\ \A k \in 1..Len(targetText) : SameCharIgnoreCase(s[i + k - 1], targetText[k])
    /\ isWord => WordBoundary(s, i) /\ WordBoundary(s, i + Len(targetText))

\* sentence.replace(regexPattern, `<b>${targetText}</b>`) for a literal pattern
RECURSIVE ReplaceLiteral(_, _, _, _)
ReplaceLiteral(s, i, targetText, isWord) ==
    IF i > Len(s) + 1 THEN <<>>
    ELSE IF LiteralMatchAt(s, i, targetText, isWord)
         THEN IF targetText = <<>>
              THEN Bold(targetText)
                   \o (IF i <= Len(s) THEN <<s[i]>> ELSE <<>>)
                   \o ReplaceLiteral(s, i + 1, targetText, isWord)
              ELSE Bold(targetText)
                   \o ReplaceLiteral(s, i + Len(targetText), targetText, isWord)
         ELSE (IF i <= Len(s) THEN <<s[i]>> ELSE <<>>)
              \o ReplaceLiteral(s, i + 1, targetText, isWord)

highlightTargetText(sentence, targetText) ==
    LET isWord == IsSingleWord(trim(targetText))
    IN  ReplaceLiteral(sentence, 1, targetText, isWord)

(* src/index.js builds new RegExp(`\\b${targetWord}\\b`, "gi") without      *)
(* escaping: "." is a wildcard and "+" a quantifier of the element before  *)
(* it.  These are the only metacharacters of the alphabet used here.       *)
RegExpMeta == {".", "+"}

\* the pattern is a syntax error when a "+" has nothing to repeat
RegExpCompiles(targetWord) ==
    \A i \in 1..Len(targetWord) :
        targetWord[i] = "+" => (i > 1 /\ targetWord[i - 1] # "+")

\* the elements of the pattern: a character, whether a "+" follows it
RECURSIVE PatternElements(_)
PatternElements(t) ==
    IF t = <<>> THEN <<>>
    ELSE IF Len(t) >= 2 /\ t[2] = "+"
         THEN <<[ch |-> t[1], plus |-> TRUE]>> \o PatternElements(SubSeq(t, 3, Len(t)))
         ELSE <<[ch |-> t[1], plus |-> FALSE]>> \o PatternElements(Tail(t))

ElementMatches(e, c) ==
    IF e.ch = "." THEN c \notin LineTerminator ELSE SameCharIgnoreCase(e.ch, c)

RECURSIVE RunLength(_, _, _)
RunLength(e, s, i) ==
    IF i <= Len(s) /\ ElementMatches(e, s[i]) THEN 1 + RunLength(e, s, i + 1) ELSE 0

\* end (exclusive) of the match of elements k.. at position i followed by \b,
\* in the order a backtracking matcher tries them; 0 when there is none
RECURSIVE MatchEnd(_, _, _, _)
RECURSIVE MatchGreedy(_, _, _, _, _)
MatchEnd(el, k, s, i) ==
    IF k > Len(el) THEN (IF WordBoundary(s, i) THEN i ELSE 0)
    ELSE IF el[k].plus
         THEN MatchGreedy(el, k, s, i, RunLength(el[k], s, i))
         ELSE IF i <= Len(s) /\ ElementMatches(el[k], s[i])
              THEN MatchEnd(el, k + 1, s, i + 1)
              ELSE 0
MatchGreedy(el, k, s, i, count) ==
    IF count = 0 THEN 0
    ELSE LET r == MatchEnd(el, k + 1, s, i + count)
         IN  IF r # 0 THEN r ELSE MatchGreedy(el, k, s, i, count - 1)

RECURSIVE ReplacePattern(_, _, _, _)
ReplacePattern(s, i, el, targetWord) ==
    IF i > Len(s) THEN <<>>
    ELSE LET end == IF WordBoundary(s, i) THEN MatchEnd(el, 1, s, i) ELSE 0
         IN  IF end # 0
             THEN Bold(targetWord) \o ReplacePattern(s, end, el, targetWord)
             ELSE <<s[i]>> \o ReplacePattern(s, i + 1, el, targetWord)

\* chatGPTsentence.replace(new RegExp(`\\b${targetWord}\\b`, "gi"), ...)
highlightUnescaped(sentence, targetWord) ==
    ReplacePattern(sentence, 1, PatternElements(targetWord), targetWord)

----------------------------------------------------------------------------
(* The run: its inputs, its state and the external services.               *)

VARIABLES
    variant,    \* which generation of the run controller is executing
    argv,       \* process.argv[2] and process.argv[3]
    env,        \* process.env: which settings are present
    pc,         \* the await at which run is suspended
    proc,       \* the process: awaiting-args, running, done or failed
    stderr,     \* what console.error has written
    requests,   \* every external request issued so far, in order
    inflight,   \* the requests (indices of requests) not yet resolved
    locals,     \* the local variables of run and of the publish call
    fs,         \* the speech_files directory and the files written
    chunks,     \* readableStreamToBuffer: chunks read from the stream so far
    response,   \* what the request that settled last settled with
    call        \* a function called on its own: its arguments and its results

vars ==
    <<variant, argv, env, pc, proc, stderr, requests, inflight, locals, fs, chunks,
      response, call>>

\* the longest audio stream, in chunks
MaxChunks == 2

Variants == {"index", "part_002", "part_001"}

PrimaryDeck == "French::Sentences from target words"
BilingualDeck == "French::English to French Speaking Practise"
DeckLists == SUBSET {"Default", PrimaryDeck, BilingualDeck}

chat == <<"c", "h", "a", "t">>
leChat == <<"l", "e", " ", "c", "h", "a", "t">>
leChatDort == <<"L", "e", " ", "c", "h", "a", "t", " ", "d", "o", "r", "t", ".">>
cPlusPlus == <<"c", "+", "+">>
\* a reply in which the word, the phrase and the sentence all occur
leChatDortLeChat == leChatDort \o <<" ", "L", "e", " ", "c", "h", "a", "t", ".">>
Quoted(s) == <<Quote>> \o s \o <<Quote>>

\* process.argv[2]: absent, empty, a word, a phrase, a sentence, quoted texts
TargetArgs ==
    {[given |-> FALSE, text |-> <<>>]}
    \cup {[given |-> TRUE, text |-> t] :
            t \in {<<>>, chat, leChat, leChatDort, cPlusPlus, Quoted(chat), Quoted(<<>>)}}

\* process.argv[3]: absent, the empty string, the three documented codes,
\* another code
DifficultyArgs == {"undefined", "", "a2", "b1", "b2", "c1"}

\* process.env with every setting present
FullEnvironment ==
    [difficultyPrompts |-> "set", phrasePrompt |-> "set",
     definitionPrompt |-> "set", openaiKey |-> TRUE, elevenLabsKey |-> TRUE]

\* process.env: every setting present, or one of them absent or empty
\* (a template is "set", "empty" or "absent"; a credential is present or not)
Environments ==
    LET all == FullEnvironment
    IN  {all,
         [all EXCEPT !.difficultyPrompts = "absent"],
         [all EXCEPT !.difficultyPrompts = "empty"],
         [all EXCEPT !.phrasePrompt = "absent"],
         [all EXCEPT !.phrasePrompt = "empty"],
         [all EXCEPT !.definitionPrompt = "absent"],
         [all EXCEPT !.definitionPrompt = "empty"],
         [all EXCEPT !.openaiKey = FALSE],
         [all EXCEPT !.elevenLabsKey = FALSE]}

\* replies of the text-generation service, by purpose
SentenceReplies == {<<".">>, leChatDortLeChat}
DefinitionReplies == {<<"c", "a", "t", ".">>}
TranslationReplies == {Quoted(<<"c", "a", "t">>)}

\* outcomes of openai.chat.completions.create / axios.post
ChatOutcomes(replies) ==
    {[kind |-> k, content |-> <<>>, decks |-> {}] :
        k \in {"transportError", "apiError", "noContent"}}
    \cup {[kind |-> "ok", content |-> c, decks |-> {}] : c \in replies}

\* outcomes of a request to the flashcard store (fetch, then response.json())
StoreOutcomes ==
    {[kind |-> k, content |-> <<>>, decks |-> {}] :
        k \in {"transportError", "invalidJson", "error"}}
    \cup {[kind |-> "result", content |-> <<>>, decks |-> d] : d \in DeckLists}

\* the response a request of the given purpose settled with
Response(purpose, outcome) ==
    [for |-> purpose, kind |-> outcome.kind, content |-> outcome.content,
     decks |-> outcome.decks]

NoPrompt == [template |-> "", target |-> <<>>, level |-> "", sentence |-> <<>>]
NoNote == [deckName |-> "", Front |-> <<>>, Back |-> <<>>, allowDuplicate |-> FALSE,
           audioPath |-> <<>>, audioFilename |-> <<>>, audioField |-> ""]

TextRequest(purpose, prompt) ==
    [service |-> "textgen", purpose |-> purpose, prompt |-> prompt,
     text |-> <<>>, deck |-> "", note |-> NoNote]
SpeechRequest(text) ==
    [service |-> "speech", purpose |-> "speech", prompt |-> NoPrompt,
     text |-> text, deck |-> "", note |-> NoNote]
StoreRequest(action, deck, note) ==
    [service |-> "store", purpose |-> action, prompt |-> NoPrompt,
     text |-> <<>>, deck |-> deck, note |-> note]

\* run calls its functions itself: no function is called on its own
NoCall == [fn |-> "none", args |-> <<>>, results |-> <<>>]

\* the local variables before run has assigned any
NoLocals ==
    [isQuoted |-> FALSE, actualText |-> <<>>, inputType |-> "none",
     chatGPTsentence |-> <<>>, textDefinition |-> <<>>,
     sentenceTranslation |-> <<>>, audioFilePath |-> <<>>,
     publishing |-> "none", deckName |-> "",
     primaryResult |-> "none", bilingualResult |-> "none"]

Init ==
    /\ variant \in Variants
    /\ argv \in [targetText : TargetArgs, difficulty : DifficultyArgs]
    /\ env \in Environments
    /\ fs \in [dirExists : BOOLEAN, dirCreated : {FALSE}, written : {{}}]
    \* part_001 builds its OpenAI client when the module loads (line 7):
    \* without the key the process ends before run is called
    /\ variant = "part_001" => env.openaiKey
    \* settings the variant never reads are left at their documented values
    /\ variant = "part_001" => env.difficultyPrompts = "set"
    /\ variant = "index" => env.phrasePrompt = "set"
    /\ variant # "part_001" => env.elevenLabsKey
    \* one deviation at a time: the environment, the difficulty code or the
    \* speech_files directory differs from the documented set-up, not several
    /\ \/ env = FullEnvironment /\ fs.dirExists
       \/ env = FullEnvironment /\ argv.difficulty = "a2"
       \/ fs.dirExists /\ argv.difficulty = "a2"
    /\ pc = "start"
    /\ proc = [state |-> "awaiting-args", exited |-> FALSE, exitCode |-> 0]
    /\ stderr = <<>>
    /\ requests = <<>>
    /\ inflight = {}
    /\ locals = NoLocals
    /\ chunks = 0
    /\ response = [for |-> "none", kind |-> "none", content |-> <<>>, decks |-> {}]
    /\ call = NoCall

----------------------------------------------------------------------------
(* Building blocks of the actions.  A context holds the values an action   *)
(* has computed so far; Commit makes it the next state.                    *)

Context ==
    [loc |-> locals, err |-> stderr, reqs |-> requests, infl |-> inflight, fs |-> fs]

Commit(ctx, nextPc, nextProc) ==
    /\ pc' = nextPc
    /\ proc' = nextProc
    /\ locals' = ctx.loc
    /\ stderr' = ctx.err
    /\ requests' = ctx.reqs
    /\ inflight' = ctx.infl
    /\ fs' = ctx.fs
    /\ chunks' = 0
    /\ UNCHANGED <<variant, argv, env, call>>

\* run returns and the process ends normally
Return(ctx) ==
    Commit(ctx, "exited", [state |-> "done", exited |-> TRUE, exitCode |-> 0])

\* an error leaves run: the promise rejects unhandled and node exits with 1
Reject(ctx, error) ==
    Commit([ctx EXCEPT !.err = Append(@, error)], "exited",
           [state |-> "failed", exited |-> TRUE, exitCode |-> 1])

\* console.error(usage); process.exit(1)
UsageError(ctx) ==
    Commit([ctx EXCEPT !.err = Append(@, "Usage:")], "exited",
           [state |-> "failed", exited |-> TRUE, exitCode |-> 1])

\* a request is sent and run suspends on it
Issue(ctx, request, nextPc) ==
    Commit([ctx EXCEPT !.reqs = Append(@, request),
                       !.infl = @ \cup {Len(ctx.reqs) + 1}],
           nextPc, [proc EXCEPT !.state = "running"])

\* a call whose promise is not awaited: run goes on while it is outstanding
NotAwaited(ctx) == ctx

\* await: run resumes when the request it sent last has resolved
Awaited(ctx) == [ctx EXCEPT !.infl = @ \ {Len(ctx.reqs)}]

Logged(ctx, message) == [ctx EXCEPT !.err = Append(@, message)]

CurrentDeck(which) == IF which = "primary" THEN PrimaryDeck ELSE BilingualDeck

\* ensureDeckExists up to its first await: the deckNames request
ensureDeckExists(ctx, which) ==
    Issue([ctx EXCEPT !.loc.publishing = which, !.loc.deckName = CurrentDeck(which)],
          StoreRequest("deckNames", CurrentDeck(which), NoNote), "deckNames")

\* hiddenTranslation: the reveal region around the sentence translation
HiddenTranslation(sentenceTranslation) ==
    <<"<div id=hidden-translation>">> \o sentenceTranslation \o <<"</div>">>

RevealBlock(sentenceTranslation) ==
    <<"<div>", "<small>Click for translation</small>">>
    \o HiddenTranslation(sentenceTranslation) \o <<"</div>", "<script>">>

LineBreaks == <<"<br /> <br />">>

\* a formattedSentence that highlights whatever the input type
FormattedSentenceAlways(v, loc) ==
    IF v = "index" THEN highlightUnescaped(loc.chatGPTsentence, loc.actualText)
    ELSE highlightTargetText(loc.chatGPTsentence, loc.actualText)

\* formattedSentence of pushSentenceAndAudioToAnki
FormattedSentence(v, loc) ==
    IF v = "index" THEN highlightUnescaped(loc.chatGPTsentence, loc.actualText)
    ELSE IF loc.inputType = "sentence" THEN loc.chatGPTsentence
    ELSE highlightTargetText(loc.chatGPTsentence, loc.actualText)

\* backContent of pushSentenceAndAudioToAnki
BackContent(v, loc) ==
    IF v # "index" /\ loc.inputType = "sentence"
    THEN FormattedSentence(v, loc) \o LineBreaks \o RevealBlock(loc.sentenceTranslation)
    ELSE FormattedSentence(v, loc) \o LineBreaks \o loc.textDefinition \o LineBreaks
         \o RevealBlock(loc.sentenceTranslation)

\* audioFilePath.split("/").pop()
LastSegment(path) ==
    LET slashes == {i \in 1..Len(path) : path[i] = "/"}
    IN  IF slashes = {} THEN path
        ELSE SubSeq(path, (CHOOSE i \in slashes : \A j \in slashes : j <= i) + 1, Len(path))

PrimaryNote(v, loc) ==
    [deckName |-> loc.deckName, Front |-> <<>>, Back |-> BackContent(v, loc),
     allowDuplicate |-> FALSE, audioPath |-> loc.audioFilePath,
     audioFilename |-> LastSegment(loc.audioFilePath), audioField |-> "Front"]

BilingualNote(loc) ==
    [deckName |-> loc.deckName, Front |-> <<"(french) ">> \o loc.sentenceTranslation,
     Back |-> loc.chatGPTsentence, allowDuplicate |-> FALSE,
     audioPath |-> loc.audioFilePath,
     audioFilename |-> LastSegment(loc.audioFilePath), audioField |-> "Back"]

\* the publish call after ensureDeckExists has returned: the note is built
\* and the addNote request sent
SubmitNote(ctx) ==
    IF ctx.loc.publishing = "bilingual"
    THEN Issue(ctx, StoreRequest("addNote", ctx.loc.deckName, BilingualNote(ctx.loc)),
               "addNote")
    ELSE IF variant = "index" /\ ~RegExpCompiles(ctx.loc.actualText)
         THEN Reject(ctx, "SyntaxError: Invalid regular expression")
         ELSE Issue(ctx,
                    StoreRequest("addNote", ctx.loc.deckName, PrimaryNote(variant, ctx.loc)),
                    "addNote")

\* a run that publishes a note once more when the store did not accept it
AfterPublishRetries(ctx) ==
    LET result == IF ctx.loc.publishing = "primary" THEN ctx.loc.primaryResult
                  ELSE ctx.loc.bilingualResult
        sent == {i \in 1..Len(ctx.reqs) :
                    /\ ctx.reqs[i].purpose = "addNote"
                    /\ ctx.reqs[i].deck = ctx.loc.deckName}
    IN  IF result # "true" /\ Cardinality(sent) < 2
        THEN ensureDeckExists(ctx, ctx.loc.publishing)
        ELSE IF variant = "part_001" /\ ctx.loc.publishing = "primary"
        THEN ensureDeckExists(ctx, "bilingual")
        ELSE Return(ctx)

\* a run that submits the bilingual note only when the primary was accepted
AfterPublishStopsOnFailure(ctx) ==
    IF variant = "part_001" /\ ctx.loc.publishing = "primary"
       /\ ctx.loc.primaryResult = "true"
    THEN ensureDeckExists(ctx, "bilingual")
    ELSE Return(ctx)

\* run after a publish call has returned
AfterPublish(ctx) ==
    IF variant = "part_001" /\ ctx.loc.publishing = "primary"
    THEN ensureDeckExists(ctx, "bilingual")
    ELSE Return(ctx)

\* a run that publishes only when the audio file has been written
AfterSpeechChecksFile(ctx) ==
    IF variant = "part_001" /\ ctx.loc.isQuoted
    THEN Return(ctx)
    ELSE IF ctx.loc.audioFilePath \notin ctx.fs.written
    THEN Return(ctx)
    ELSE ensureDeckExists(ctx, "primary")

\* a run that publishes in the quoted branch as well
AfterSpeechPublishesQuoted(ctx) == ensureDeckExists(ctx, "primary")

\* run after textToSpeech has returned
AfterSpeech(ctx) ==
    IF variant = "part_001" /\ ctx.loc.isQuoted
    THEN Return(ctx)
    ELSE ensureDeckExists(ctx, "primary")

\* whether the speech client can be constructed
SpeechCredential == IF variant = "part_001" THEN env.elevenLabsKey ELSE env.openaiKey

\* createFilePath: the directory is made when absent
createFilePath(ctx) ==
    [ctx EXCEPT !.loc.audioFilePath = createFilePathResult(ctx.loc.chatGPTsentence),
                !.fs.dirExists = TRUE,
                !.fs.dirCreated = ~ctx.fs.dirExists]

\* textToSpeech up to its first await; a missing credential is caught inside
textToSpeech(ctx) ==
    IF SpeechCredential
    THEN Issue(ctx, SpeechRequest(ctx.loc.chatGPTsentence), "speech")
    ELSE AfterSpeech([ctx EXCEPT !.err = Append(@, "Error generating speech audio")])

\* run from createFilePath to the next await
StartSpeech(ctx) == textToSpeech(createFilePath(ctx))

TranslationPrompt(sentence) ==
    [template |-> "Translate", target |-> <<>>, level |-> "", sentence |-> sentence]

\* translateSentence up to its await
translateSentence(ctx) ==
    Issue(ctx, TextRequest("translation", TranslationPrompt(ctx.loc.chatGPTsentence)),
          "translation")

\* a run that gives up when the definition is empty as well
AfterDefinitionAbortsOnEmpty(ctx) ==
    IF ctx.loc.chatGPTsentence = <<>> \/ ctx.loc.textDefinition = <<>>
    THEN Return(ctx)
    ELSE translateSentence(ctx)

\* run after the definition has been received
AfterDefinition(ctx) ==
    IF variant = "part_001" /\ ~ctx.loc.isQuoted /\ ctx.loc.chatGPTsentence = <<>>
    THEN Return(ctx)
    ELSE translateSentence(ctx)

DefinitionPrompt(targetText) ==
    [template |-> "WORD_DEFINITION_PROMPT", target |-> targetText, level |-> "",
     sentence |-> <<>>]

\* getWordDefinitionFromChatGPT up to its await: replaceAll on an absent
\* template is a TypeError, an empty template gives the empty prompt
getWordDefinitionFromChatGPT(ctx) ==
    IF env.definitionPrompt = "absent"
    THEN Reject(ctx, "TypeError: Cannot read properties of undefined")
    ELSE Issue(ctx,
               TextRequest("definition",
                           IF env.definitionPrompt = "empty" THEN NoPrompt
                           ELSE DefinitionPrompt(ctx.loc.actualText)),
               "definition")

\* the difficulty label of generateSentenceFromPhrase
DifficultyLevel(difficulty) ==
    IF difficulty = "b1" THEN "intermediate (B1)"
    ELSE IF difficulty = "b2" THEN "advanced (B2)"
    ELSE "beginner (A2)"

\* generateSentenceFromPhrase up to its await
generateSentenceFromPhrase(ctx, targetPhrase, difficulty) ==
    IF env.phrasePrompt = "absent"
    THEN Reject(ctx, "TypeError: Cannot read properties of undefined")
    ELSE Issue(ctx,
               TextRequest("sentence",
                           IF env.phrasePrompt = "empty" THEN NoPrompt
                           ELSE [template |-> "PHRASE_SENTENCE_PROMPT",
                                 target |-> targetPhrase,
                                 level |-> DifficultyLevel(difficulty),
                                 sentence |-> <<>>]),
               "sentence")

\* a choice of template that falls back to the beginner template
WordTemplateDefaultsToBeginner(difficulty) ==
    IF difficulty = "b1" THEN "INTERMEDIATE_PROMPT"
    ELSE IF difficulty = "b2" THEN "ADVANCED_PROMPT"
    ELSE "BEGINNER_PROMPT"

\* the template run picks for a word: let prompt = ""; if (difficulty === ...)
WordTemplate(difficulty) ==
    IF difficulty = "a2" THEN "BEGINNER_PROMPT"
    ELSE IF difficulty = "b1" THEN "INTERMEDIATE_PROMPT"
    ELSE IF difficulty = "b2" THEN "ADVANCED_PROMPT"
    ELSE ""

\* generateSentenceFromKnownWords up to its await, with the prompt run chose
generateSentenceFromKnownWords(ctx, targetWord, difficulty) ==
    IF WordTemplate(difficulty) # "" /\ env.difficultyPrompts = "absent"
    THEN Reject(ctx, "TypeError: Cannot read properties of undefined")
    ELSE Issue(ctx,
               TextRequest("sentence",
                           IF WordTemplate(difficulty) = "" \/ env.difficultyPrompts = "empty"
                           THEN NoPrompt
                           ELSE [template |-> WordTemplate(difficulty),
                                 target |-> targetWord, level |-> "",
                                 sentence |-> <<>>]),
               "sentence")

\* targetText.startsWith('"') && targetText.endsWith('"')
IsQuoted(targetText) == startsWith(targetText, Quote) /\ endsWith(targetText, Quote)

\* run of src/index.js after the argument check
RunIndex(ctx, targetWord, difficulty) ==
    generateSentenceFromKnownWords([ctx EXCEPT !.loc.actualText = targetWord],
                                   targetWord, difficulty)

\* run of part_002 after the argument check
RunPart002(ctx, targetText, difficulty) ==
    LET inputType == determineInputType(targetText)
        c == [ctx EXCEPT !.loc.actualText = targetText, !.loc.inputType = inputType]
    IN  IF inputType = "word"
        THEN generateSentenceFromKnownWords(c, targetText, difficulty)
        ELSE generateSentenceFromPhrase(c, targetText, difficulty)

\* run of part_001 after the argument check
RunPart001(ctx, targetText, difficulty) ==
    LET isQuoted == IsQuoted(targetText)
        actualText == IF isQuoted THEN SubSeq(targetText, 2, Len(targetText) - 1)
                      ELSE targetText
    IN  IF isQuoted
        THEN getWordDefinitionFromChatGPT(
                 [ctx EXCEPT !.loc.isQuoted = TRUE, !.loc.actualText = actualText,
                             !.loc.inputType = "phrase",
                             !.loc.chatGPTsentence = actualText])
        ELSE generateSentenceFromPhrase(
                 [ctx EXCEPT !.loc.actualText = actualText,
                             !.loc.inputType = determineInputType(actualText)],
                 actualText, difficulty)

\* a check that forgets the difficulty argument
ArgumentsMissingTargetOnly(args) ==
    \/ ~args.targetText.given
    \/ args.targetText.text = <<>>

\* if (!targetText || !difficulty)
ArgumentsMissing(args) ==
    \/ ~args.targetText.given
    \/ args.targetText.text = <<>>
    \/ args.difficulty \in {"undefined", ""}

----------------------------------------------------------------------------
(* The actions: run from one await to the next.                            *)

\* run is called: the argument check and everything up to the first await
Start ==
    /\ pc = "start"
    /\ UNCHANGED response
    /\ IF ArgumentsMissing(argv) THEN UsageError(Context)
       ELSE IF variant = "index"
            THEN RunIndex(Context, argv.targetText.text, argv.difficulty)
       ELSE IF variant = "part_002"
            THEN RunPart002(Context, argv.targetText.text, argv.difficulty)
       ELSE RunPart001(Context, argv.targetText.text, argv.difficulty)

\* a callChatGPT whose catch block lets transport errors through
callChatGPTRethrows(outcome) ==
    [threw |-> outcome.kind = "transportError",
     logged |-> outcome.kind # "ok",
     value |-> IF outcome.kind = "ok" THEN StripTrailingPeriod(outcome.content) ELSE <<>>]

\* callChatGPT after its request has settled: every failure is caught
callChatGPT(outcome) ==
    [threw |-> FALSE,
     logged |-> outcome.kind # "ok",
     value |-> IF outcome.kind = "ok" THEN StripTrailingPeriod(outcome.content) ELSE <<>>]

\* without a key the service answers 401, which is an API error
ChatOutcomesFor(replies) ==
    IF env.openaiKey THEN ChatOutcomes(replies)
    ELSE {o \in ChatOutcomes(replies) : o.kind \in {"transportError", "apiError"}}

AfterChat(ctx, r) == IF r.logged THEN Logged(Awaited(ctx), "Error:") ELSE Awaited(ctx)

\* a run that tests the sentence before it asks for the definition
SentenceResolvedTestsFirst ==
    /\ pc = "sentence"
    /\ \E outcome \in ChatOutcomesFor(SentenceReplies) :
        /\ response' = Response("sentence", outcome)
        /\ LET r == callChatGPT(outcome)
               ctx == AfterChat(Context, r)
           IN  IF variant = "part_001" /\ r.value = <<>>
               THEN Return([ctx EXCEPT !.loc.chatGPTsentence = r.value])
               ELSE getWordDefinitionFromChatGPT([ctx EXCEPT !.loc.chatGPTsentence = r.value])

\* the sentence request settles; run goes on to the definition
SentenceResolved ==
    /\ pc = "sentence"
    /\ \E outcome \in ChatOutcomesFor(SentenceReplies) :
        /\ response' = Response("sentence", outcome)
        /\ LET r == callChatGPT(outcome)
               ctx == AfterChat(Context, r)
           IN  IF r.threw THEN Reject(ctx, "Error")
               ELSE getWordDefinitionFromChatGPT([ctx EXCEPT !.loc.chatGPTsentence = r.value])

\* the definition request settles
DefinitionResolved ==
    /\ pc = "definition"
    /\ \E outcome \in ChatOutcomesFor(DefinitionReplies) :
        /\ response' = Response("definition", outcome)
        /\ LET r == callChatGPT(outcome)
               ctx == AfterChat(Context, r)
           IN  IF r.threw THEN Reject(ctx, "Error")
               ELSE AfterDefinition([ctx EXCEPT !.loc.textDefinition = r.value])

\* what translateSentence returns for the reply callChatGPT gave it
TranslationOf(value) == IF variant = "part_001" THEN CleanTranslation(value) ELSE value

\* the translation request settles; run creates the path and starts the speech
TranslationResolved ==
    /\ pc = "translation"
    /\ \E outcome \in ChatOutcomesFor(TranslationReplies) :
        /\ response' = Response("translation", outcome)
        /\ LET r == callChatGPT(outcome)
               ctx == AfterChat(Context, r)
           IN  IF r.threw THEN Reject(ctx, "Error")
               ELSE StartSpeech([ctx EXCEPT !.loc.sentenceTranslation = TranslationOf(r.value)])


\* outcomes of the speech request: the call fails, or a response arrives
\* (part_001: a stream still to be read; the others: the body, read or not)
SpeechOutcomes ==
    {[kind |-> k, content |-> <<>>, decks |-> {}] : k \in {"error", "response", "bodyError"}}

\* the speech request settles inside textToSpeech's try block
SpeechResolved ==
    /\ pc = "speech"
    /\ \E outcome \in SpeechOutcomes :
        /\ response' = Response("speech", outcome)
        /\ IF outcome.kind = "error"
           THEN AfterSpeech(Logged(Awaited(Context), "Error generating speech audio"))
           ELSE IF variant = "part_001"
           THEN /\ outcome.kind = "response"
                /\ Commit(Context, "readStream", proc)
           ELSE IF outcome.kind = "response"
           THEN Commit(Awaited(Context), "writeFile", proc)
           ELSE AfterSpeech(Logged(Awaited(Context), "Error generating speech audio"))

\* a readableStreamToBuffer that gives up on a stream that does not end:
\* textToSpeech returns while the call is still outstanding
StreamChunkOrTimeout ==
    /\ pc = "readStream"
    /\ IF chunks < MaxChunks
       THEN /\ chunks' = chunks + 1
            /\ UNCHANGED <<variant, argv, env, pc, proc, stderr, requests, inflight,
                           locals, fs, response, call>>
       ELSE /\ UNCHANGED <<response, inflight>>
            /\ pc' = "writeFile"
            /\ UNCHANGED <<variant, argv, env, proc, stderr, requests, locals, fs,
                           chunks, call>>

\* readableStreamToBuffer: reader.read() gives one more chunk
StreamChunk ==
    /\ pc = "readStream"
    /\ chunks < MaxChunks
    /\ chunks' = chunks + 1
    /\ UNCHANGED <<variant, argv, env, pc, proc, stderr, requests, inflight, locals, fs,
                   response, call>>

\* readableStreamToBuffer: reader.read() reports done, or fails
StreamEnd ==
    /\ pc = "readStream"
    /\ \E done \in BOOLEAN :
        IF done
        THEN /\ response' = [response EXCEPT !.kind = "streamDone"]
             /\ Commit(Awaited(Context), "writeFile", proc)
        ELSE /\ response' = [response EXCEPT !.kind = "streamError"]
             /\ AfterSpeech(Logged(Awaited(Context), "Error generating speech audio"))

\* a textToSpeech that reports success without the file being there
FileWrittenNowhere ==
    /\ pc = "writeFile"
    /\ UNCHANGED response
    /\ \E ok \in BOOLEAN :
        IF ok
        THEN AfterSpeech(Context)
        ELSE AfterSpeech(Logged(Context, "Error generating speech audio"))

\* fs.promises.writeFile settles: the file exists, or the error is caught
FileWritten ==
    /\ pc = "writeFile"
    /\ UNCHANGED response
    /\ \E ok \in BOOLEAN :
        IF ok
        THEN AfterSpeech([Context EXCEPT !.fs.written = @ \cup {locals.audioFilePath}])
        ELSE AfterSpeech(Logged(Context, "Error generating speech audio"))

\* an ensureDeckExists without its try/catch: a failed deckNames leaves run
ensureDeckExistsResumeThrows(ctx, outcome) ==
    IF outcome.kind = "result"
    THEN IF ctx.loc.deckName \notin outcome.decks
         THEN Issue(ctx, StoreRequest("createDeck", ctx.loc.deckName, NoNote), "createDeck")
         ELSE SubmitNote(ctx)
    ELSE Reject(ctx, "Failed to ensure deck exists")

\* ensureDeckExists after the deckNames request has settled
ensureDeckExistsResume(ctx, outcome) ==
    IF outcome.kind = "result"
    THEN IF ctx.loc.deckName \notin outcome.decks
         THEN Issue(ctx, StoreRequest("createDeck", ctx.loc.deckName, NoNote), "createDeck")
         ELSE SubmitNote(ctx)
    ELSE SubmitNote(Logged(ctx, "Failed to ensure deck exists"))

DeckNamesResolved ==
    /\ pc = "deckNames"
    /\ \E outcome \in StoreOutcomes :
        /\ response' = Response("deckNames", outcome)
        /\ ensureDeckExistsResume(Awaited(Context), outcome)

\* ensureDeckExists after the createDeck request has settled
CreateDeckResolved ==
    /\ pc = "createDeck"
    /\ \E outcome \in {o \in StoreOutcomes : o.decks = {}} :
        /\ response' = Response("createDeck", outcome)
        /\ IF outcome.kind = "result"
           THEN SubmitNote(Awaited(Context))
           ELSE SubmitNote(Logged(Awaited(Context), "Failed to ensure deck exists"))

\* what the publish call returns for the outcome of its addNote request
publishResult(outcome) ==
    IF outcome.kind = "result" THEN "true"
    ELSE IF outcome.kind = "error" THEN "undefined"
    ELSE "false"

\* the addNote request settles and the publish call returns
AddNoteResolved ==
    /\ pc = "addNote"
    /\ \E outcome \in {o \in StoreOutcomes : o.decks = {}} :
        /\ response' = Response("addNote", outcome)
        /\ LET ctx == IF outcome.kind = "result" THEN Awaited(Context)
                      ELSE IF outcome.kind = "error"
                           THEN Logged(Awaited(Context), "AnkiConnect Error:")
                           ELSE Logged(Awaited(Context), "Failed to connect to AnkiConnect")
           IN  IF locals.publishing = "primary"
               THEN AfterPublish([ctx EXCEPT !.loc.primaryResult = publishResult(outcome)])
               ELSE AfterPublish([ctx EXCEPT !.loc.bilingualResult = publishResult(outcome)])

Next ==
    \/ Start
    \/ SentenceResolved
    \/ DefinitionResolved
    \/ TranslationResolved
    \/ SpeechResolved
    \/ StreamChunk
    \/ StreamEnd
    \/ FileWritten
    \/ DeckNamesResolved
    \/ CreateDeckResolved
    \/ AddNoteResolved

Spec == Init /\ [][Next]_vars

\* the points at which run is suspended
AwaitPoints ==
    {"start", "sentence", "definition", "translation", "speech", "readStream",
     "writeFile", "deckNames", "createDeck", "addNote", "exited"}

\* run moves on from the await at which it is suspended: every step of Next
\* is such a step, and one is possible as long as the process has not exited
Resumes ==
    /\ ~proc.exited
    /\ pc' \in AwaitPoints
    /\ chunks' \in 0..MaxChunks
    /\ <<pc', chunks'>> # <<pc, chunks>>

\* the runs in which every awaited call resolves or fails in the end (a
\* request settles, the stream gives a chunk or ends, the file is written)
FairSpec == Spec /\ WF_<<pc, chunks>>(Resumes)

----------------------------------------------------------------------------
(* What the properties speak about.                                        *)

RequestsFor(purpose) == {i \in 1..Len(requests) : requests[i].purpose = purpose}

Issued(purpose) == RequestsFor(purpose) # {}

\* the request has been sent and has settled
Settled(purpose) == \E i \in RequestsFor(purpose) : i \notin inflight

HasLogged(message) == \E i \in 1..Len(stderr) : stderr[i] = message

\* the sentence-generation call has returned the empty string
GenerationFailed == Settled("sentence") /\ locals.chatGPTsentence = <<>>

\* the sentence-generation call has returned a sentence
GenerationSucceeded == Settled("sentence") /\ locals.chatGPTsentence # <<>>

----------------------------------------------------------------------------
(* C1: once the sentence-generation call has returned the empty string, no *)
(* speech-synthesis request is issued, no audio file is written and no     *)
(* addNote request is sent, in every generation of run.                    *)
C1_AbortOnEmptySentence ==
    GenerationFailed =>
        /\ ~Issued("speech")
        /\ fs.written = {}
        /\ ~Issued("addNote")

(* C2: when the target text or the difficulty is missing, run ends failed  *)
(* with exit code 1 and the usage message on standard error, and no        *)
(* request has been issued and no file or directory created, then or       *)
(* before.                                                                 *)
C2_ArgumentMissing == ~argv.targetText.given \/ argv.difficulty = "undefined"

C2_UsageErrorIsFatal ==
    C2_ArgumentMissing =>
        /\ requests = <<>>
        /\ fs.written = {}
        /\ ~fs.dirCreated
        /\ pc # "start" =>
            /\ proc = [state |-> "failed", exited |-> TRUE, exitCode |-> 1]
            /\ stderr = <<"Usage:">>

C2_Witness ==
    /\ C2_ArgumentMissing
    /\ argv.targetText.given
    /\ proc.exited

(* C3: at most one external request is outstanding, and only the one sent  *)
(* last: a request is sent when every earlier one has settled.  Requests   *)
(* go out in the order sentence, definition, translation, speech, store,   *)
(* and the store calls of a publish call in the order deckNames,           *)
(* createDeck (optional), addNote.                                         *)
C3_Rank(purpose) ==
    CASE purpose = "sentence" -> 1
      [] purpose = "definition" -> 2
      [] purpose = "translation" -> 3
      [] purpose = "speech" -> 4
      [] OTHER -> 5

C3_StoreOrder(before, after) ==
    \/ before \notin {"deckNames", "createDeck", "addNote"} /\ after = "deckNames"
    \/ before = "deckNames" /\ after \in {"createDeck", "addNote"}
    \/ before = "createDeck" /\ after = "addNote"
    \/ before = "addNote" /\ after = "deckNames"

C3_OneRequestAtATime ==
    /\ Cardinality(inflight) <= 1
    /\ inflight \subseteq {Len(requests)}
    /\ \A i \in 1..Len(requests) : \A j \in 1..Len(requests) :
        i < j => C3_Rank(requests[i].purpose) <= C3_Rank(requests[j].purpose)
    /\ \A j \in 1..Len(requests) :
        requests[j].service = "store" =>
            C3_StoreOrder(IF j = 1 THEN "none" ELSE requests[j - 1].purpose,
                          requests[j].purpose)

C3_Witness ==
    /\ variant = "part_001"
    /\ Cardinality(RequestsFor("addNote")) = 2
    /\ Issued("createDeck")
    /\ Issued("speech")
    /\ Issued("sentence")
    /\ inflight = {Len(requests)}

(* C4 as stated: every invocation that terminates has written exactly one  *)
(* audio file and submitted at most two notes.                             *)
C4_ExactlyOneAudioFile ==
    proc.exited =>
        /\ Cardinality(fs.written) = 1
        /\ Cardinality(RequestsFor("addNote")) <= 2

\* the speech request was sent and textToSpeech reported no error
C4_SpeechSucceeded == Issued("speech") /\ ~HasLogged("Error generating speech audio")

(* C4 amended: every invocation that terminates has written at most one    *)
(* audio file, exactly one when its speech synthesis succeeded and none    *)
(* otherwise, and has submitted at most two notes.                         *)
C4_AtMostOneAudioFile ==
    proc.exited =>
        /\ Cardinality(fs.written) <= 1
        /\ Cardinality(fs.written) = 1 <=> C4_SpeechSucceeded
        /\ Cardinality(RequestsFor("addNote")) <= 2

C4_Witness ==
    /\ proc.exited
    /\ Cardinality(fs.written) = 1
    /\ Cardinality(RequestsFor("addNote")) = 2

(* C5: callChatGPT never raises.  Whatever the text-generation request     *)
(* settled with, run has not failed through the call; a transport error,   *)
(* an API error and a response without content give the empty string, and  *)
(* a response with content gives the content less its final period (which  *)
(* translateSentence of part_001 then cleans up).                          *)
C5_ChatCalls == {"sentence", "definition", "translation"}

C5_Returned ==
    IF response.for = "sentence" THEN locals.chatGPTsentence
    ELSE IF response.for = "definition" THEN locals.textDefinition
    ELSE locals.sentenceTranslation

C5_Expected ==
    LET content == IF endsWith(response.content, ".")
                   THEN SubSeq(response.content, 1, Len(response.content) - 1)
                   ELSE response.content
    IN  IF response.for = "translation" /\ variant = "part_001"
        THEN CleanTranslation(content)
        ELSE content

C5_CallChatGPTNeverRaises ==
    response.for \in C5_ChatCalls =>
        /\ ~HasLogged("Error")
        /\ proc.state = "failed" =>
            stderr[Len(stderr)] = "TypeError: Cannot read properties of undefined"
        /\ response.kind # "ok" => C5_Returned = <<>>
        /\ response.kind = "ok" => C5_Returned = C5_Expected

C5_Witness ==
    /\ response.for = "sentence"
    /\ response.kind = "transportError"
    /\ locals.chatGPTsentence = <<>>
    /\ pc = "definition"
    /\ proc.state = "running"

(* C6 (part_001, and part_002 which shares the code): when the sentence    *)
(* was generated and speech synthesis failed, textToSpeech raised nothing  *)
(* and no file was written, and the run ends normally having submitted     *)
(* addNote with the path createFilePath derived, a file that was never     *)
(* written; nothing but deckNames, createDeck and addNote is ever sent to  *)
(* the store, so nothing is rolled back.                                   *)
C6_Scope == {"part_001", "part_002"}

C6_SpeechFailed == HasLogged("Error generating speech audio")

C6_DeadAudioReference ==
    (variant \in C6_Scope /\ GenerationSucceeded /\ C6_SpeechFailed) =>
        /\ fs.written = {}
        /\ proc.state # "failed"
        /\ \A i \in RequestsFor("addNote") :
            /\ requests[i].note.audioPath = createFilePathResult(locals.chatGPTsentence)
            /\ requests[i].note.audioPath \notin fs.written
        /\ \A i \in 1..Len(requests) :
            requests[i].service = "store" =>
                requests[i].purpose \in {"deckNames", "createDeck", "addNote"}
        /\ proc.exited =>
            \E i \in RequestsFor("addNote") :
                requests[i].note.audioField = "Front" /\ i \notin inflight

C6_Witness ==
    /\ variant = "part_001"
    /\ GenerationSucceeded
    /\ Issued("speech")
    /\ C6_SpeechFailed
    /\ proc.exited
    /\ locals.primaryResult = "true"
    /\ fs.written = {}

(* C7: a createDeck request is outstanding exactly when the deckNames      *)
(* request has just succeeded with a list that lacks the deck.  In         *)
(* part_001 and part_002, whatever deckNames and createDeck settle with,   *)
(* run has not failed and the addNote request of the same publish call,    *)
(* for the same deck, is the next request and is outstanding.              *)
C7_Scope == {"part_001", "part_002"}

C7_DeckMissing ==
    /\ response.for = "deckNames"
    /\ response.kind = "result"
    /\ locals.deckName \notin response.decks

C7_EnsureDeckDone ==
    \/ response.for = "deckNames" /\ ~C7_DeckMissing
    \/ response.for = "createDeck"

C7_EnsureDeckExists ==
    /\ pc = "createDeck" <=> C7_DeckMissing
    /\ pc = "createDeck" =>
        /\ requests[Len(requests)].purpose = "createDeck"
        /\ requests[Len(requests)].deck = locals.deckName
        /\ requests[Len(requests) - 1].purpose = "deckNames"
    /\ (variant \in C7_Scope /\ C7_EnsureDeckDone) =>
        /\ proc.state = "running"
        /\ pc = "addNote"
        /\ requests[Len(requests)].purpose = "addNote"
        /\ requests[Len(requests)].deck = locals.deckName
        /\ inflight = {Len(requests)}

C7_Witness ==
    /\ variant = "part_001"
    /\ response.for = "createDeck"
    /\ response.kind = "error"
    /\ pc = "addNote"
    /\ locals.publishing = "bilingual"

(* C8 (part_001): the publish call returns true when the addNote response  *)
(* carries no error, and false when the store rejects the note or the      *)
(* request fails in transport.                                             *)
C8_LastResult ==
    IF locals.bilingualResult # "none" THEN locals.bilingualResult
    ELSE locals.primaryResult

C8_PublishReturnsBoolean ==
    (variant = "part_001" /\ response.for = "addNote") =>
        C8_LastResult = (IF response.kind = "result" THEN "true" ELSE "false")

(* C9: no request is retried.  A run sends at most one sentence, one       *)
(* definition, one translation and one speech request, and for each note   *)
(* (each deck) at most one deckNames, one createDeck and one addNote       *)
(* request; no request appears twice among the requests sent.              *)
C9_NoRetry ==
    /\ \A p \in {"sentence", "definition", "translation", "speech"} :
        Cardinality(RequestsFor(p)) <= 1
    /\ \A d \in {PrimaryDeck, BilingualDeck} :
        \A a \in {"deckNames", "createDeck", "addNote"} :
            Cardinality({i \in RequestsFor(a) : requests[i].deck = d}) <= 1
    /\ \A i \in 1..Len(requests) : \A j \in 1..Len(requests) :
        i # j => requests[i] # requests[j]

C9_Witness ==
    /\ variant = "part_001"
    /\ proc.exited
    /\ locals.primaryResult = "false"
    /\ locals.bilingualResult = "undefined"
    /\ HasLogged("Error:")
    /\ HasLogged("Failed to ensure deck exists")

(* C10 (part_001, part_002): when the sentence was generated and the       *)
(* definition or the translation came back empty, the translation request  *)
(* was still sent, textToSpeech was still called for the path of the       *)
(* sentence (its request sent whenever the credential is there) and the    *)
(* primary note was submitted with the empty texts in its back field; the  *)
(* run ends normally.                                                      *)
C10_Scope == {"part_001", "part_002"}

C10_EmptySubCall ==
    /\ GenerationSucceeded
    /\ Settled("definition")
    /\ proc.exited
    /\ locals.textDefinition = <<>> \/ locals.sentenceTranslation = <<>>

C10_SubCallsIndependent ==
    (variant \in C10_Scope /\ C10_EmptySubCall) =>
        /\ proc.state = "done"
        /\ Settled("translation")
        /\ locals.audioFilePath = createFilePathResult(locals.chatGPTsentence)
        /\ SpeechCredential => Settled("speech")
        /\ \E i \in RequestsFor("addNote") :
            /\ requests[i].deck = PrimaryDeck
            /\ includes(requests[i].note.Back,
                        HiddenTranslation(locals.sentenceTranslation))
            /\ locals.inputType # "sentence" =>
                includes(requests[i].note.Back,
                         LineBreaks \o locals.textDefinition \o LineBreaks)

C10_Witness ==
    /\ variant = "part_001"
    /\ C10_EmptySubCall
    /\ locals.textDefinition = <<>>
    /\ locals.sentenceTranslation = <<>>
    /\ locals.inputType = "word"
    /\ locals.primaryResult = "true"

----------------------------------------------------------------------------
(* C11 (part_002, part_001): with a documented difficulty code and every   *)
(* template configured, the sentence-generation request carries the        *)
(* word-specific template of the tier (a2 beginner, b1 intermediate, b2    *)
(* advanced) when run classified the input as word, and the                *)
(* phrase-specific template with the label beginner (A2), intermediate     *)
(* (B1) or advanced (B2) when it classified it as phrase or sentence.      *)
C11_Scope == {"part_001", "part_002"}

C11_Tier(difficulty) ==
    CASE difficulty = "a2" -> "BEGINNER_PROMPT"
      [] difficulty = "b1" -> "INTERMEDIATE_PROMPT"
      [] difficulty = "b2" -> "ADVANCED_PROMPT"

C11_Label(difficulty) ==
    CASE difficulty = "a2" -> "beginner (A2)"
      [] difficulty = "b1" -> "intermediate (B1)"
      [] difficulty = "b2" -> "advanced (B2)"

C11_PromptByKindAndDifficulty ==
    (/\ variant \in C11_Scope
     /\ argv.difficulty \in {"a2", "b1", "b2"}
     /\ env = FullEnvironment) =>
        \A i \in RequestsFor("sentence") :
            /\ requests[i].prompt.target = locals.actualText
            /\ locals.inputType = "word" =>
                /\ requests[i].prompt.template = C11_Tier(argv.difficulty)
                /\ requests[i].prompt.level = ""
            /\ locals.inputType \in {"phrase", "sentence"} =>
                /\ requests[i].prompt.template = "PHRASE_SENTENCE_PROMPT"
                /\ requests[i].prompt.level = C11_Label(argv.difficulty)

----------------------------------------------------------------------------
(* C12: in the primary note of a run that classified its input, the back   *)
(* field opens with the generated sentence as it is, and holds no bold     *)
(* markup, when the input was classified as sentence; it opens with        *)
(* highlightTargetText(sentence, target) when the input was classified as  *)
(* word or phrase.  (src/index.js does not classify: it always             *)
(* highlights.)                                                            *)
C12_PrimaryNotes == {i \in RequestsFor("addNote") : requests[i].note.audioField = "Front"}

C12_OpensWith(field, text) ==
    /\ Len(field) >= Len(text) + 1
    /\ SubSeq(field, 1, Len(text)) = text
    /\ SubSeq(field, Len(text) + 1, Len(text) + 1) = LineBreaks

C12_HasMarkup(field) == \E k \in 1..Len(field) : field[k] \in {"<b>", "</b>"}

C12_HighlightByInputType ==
    \A i \in C12_PrimaryNotes :
        /\ locals.inputType = "sentence" =>
            /\ C12_OpensWith(requests[i].note.Back, locals.chatGPTsentence)
            /\ ~C12_HasMarkup(requests[i].note.Back)
        /\ locals.inputType \in {"word", "phrase"} =>
            C12_OpensWith(requests[i].note.Back,
                          highlightTargetText(locals.chatGPTsentence, locals.actualText))

\* a sentence input whose text occurs in the generated sentence, published
C12_Witness ==
    /\ C12_PrimaryNotes # {}
    /\ locals.inputType = "sentence"
    /\ highlightTargetText(locals.chatGPTsentence, locals.actualText)
        # locals.chatGPTsentence

----------------------------------------------------------------------------
(* C13: when the template configured for a purpose (sentence from a word,  *)
(* sentence from a phrase, definition) is absent or empty, no              *)
(* text-generation request is issued for that purpose, and once run has    *)
(* come to build that prompt it has failed.  (The translation template is  *)
(* a literal of the code and cannot be missing.)                           *)
C13_UsesWordTemplate ==
    \/ variant = "index"
    \/ variant = "part_002" /\ determineInputType(argv.targetText.text) = "word"

C13_TemplateMissing(purpose) ==
    IF purpose = "definition" THEN env.definitionPrompt # "set"
    ELSE IF C13_UsesWordTemplate THEN env.difficultyPrompts # "set"
    ELSE env.phrasePrompt # "set"

C13_QuotedRun == variant = "part_001" /\ IsQuoted(argv.targetText.text)

\* run has come to the call that builds the prompt of the purpose
C13_Reached(purpose) ==
    /\ pc # "start"
    /\ ~ArgumentsMissing(argv)
    /\ IF purpose = "sentence" THEN ~C13_QuotedRun
       ELSE C13_QuotedRun \/ Settled("sentence")

C13_MissingTemplateFails ==
    \A purpose \in {"sentence", "definition"} :
        C13_TemplateMissing(purpose) =>
            /\ ~Issued(purpose)
            /\ C13_Reached(purpose) => proc.state = "failed"

----------------------------------------------------------------------------
(* The functions of the program called on their own, on every argument up  *)
(* to a length: determineInputType, highlightTargetText, the highlighting  *)
(* of src/index.js, and createFilePath called for two sentences in turn.   *)

\* the longest text given to determineInputType
MaxInputLen == 4
\* the longest sentence given to the highlighting
MaxSentenceLen == 3
\* the longest sentence given to createFilePath
MaxPathLen == 3

Strings(alphabet, n) == UNION {[1..k -> alphabet] : k \in 0..n}

ClassifyAlphabet == {"a", "é", "_", "-", " ", ".", "\n"}
HighlightAlphabet == {"c", "C", "a", "+", " "}
HighlightTargets ==
    {<<"c">>, <<"C">>, <<"c", "a">>, <<"c", "+">>, <<"+">>, <<"c", " ", "a">>}
PathAlphabet == {"a", " ", "-", "."}
\* the sentences createFilePath is called for next
PathOthers ==
    {<<>>, <<"a">>, <<"a", ".">>, <<"a", "-", "a">>, <<"a", " ", "a">>,
     <<"a", " ", " ", "a">>}

Argument(sentence, targetText) == [sentence |-> sentence, target |-> targetText]
Returned(kind, text) == [kind |-> kind, text |-> text, threw |-> FALSE]
Thrown == [kind |-> "", text |-> <<>>, threw |-> TRUE]

Calls ==
    {[fn |-> "determineInputType", args |-> <<Argument(s, <<>>)>>, results |-> <<>>] :
        s \in Strings(ClassifyAlphabet, MaxInputLen)}
    \cup {[fn |-> f, args |-> <<Argument(s, t)>>, results |-> <<>>] :
            f \in {"highlightTargetText", "formattedSentence"},
            s \in Strings(HighlightAlphabet, MaxSentenceLen),
            t \in HighlightTargets}
    \cup {[fn |-> "createFilePath", args |-> <<Argument(s, <<>>), Argument(o, <<>>)>>,
           results |-> <<>>] :
            s \in Strings(PathAlphabet, MaxPathLen), o \in PathOthers}

FunctionInit ==
    /\ call \in Calls
    /\ fs \in [dirExists : BOOLEAN, dirCreated : {FALSE}, written : {{}}]
    /\ call.fn # "createFilePath" => fs.dirExists
    /\ variant = "part_001"
    /\ argv = [targetText |-> [given |-> FALSE, text |-> <<>>], difficulty |-> "undefined"]
    /\ env = FullEnvironment
    /\ pc = "call"
    /\ proc = [state |-> "running", exited |-> FALSE, exitCode |-> 0]
    /\ stderr = <<>>
    /\ requests = <<>>
    /\ inflight = {}
    /\ locals = NoLocals
    /\ chunks = 0
    /\ response = [for |-> "none", kind |-> "none", content |-> <<>>, decks |-> {}]

\* the argument of the call that comes next
NextArgument == call.args[Len(call.results) + 1]

CallPending(fn) ==
    /\ pc = "call"
    /\ call.fn = fn
    /\ Len(call.results) < Len(call.args)

CallReturns(result) ==
    /\ call' = [call EXCEPT !.results = Append(@, result)]
    /\ UNCHANGED <<variant, argv, env, pc, proc, stderr, requests, inflight, locals,
                   chunks, response>>

CallDetermineInputType ==
    /\ CallPending("determineInputType")
    /\ CallReturns(Returned(determineInputType(NextArgument.sentence), <<>>))
    /\ UNCHANGED fs

CallHighlightTargetText ==
    /\ CallPending("highlightTargetText")
    /\ CallReturns(Returned("", highlightTargetText(NextArgument.sentence,
                                                    NextArgument.target)))
    /\ UNCHANGED fs

\* src/index.js: new RegExp throws when the pattern does not compile
CallFormattedSentence ==
    /\ CallPending("formattedSentence")
    /\ IF RegExpCompiles(NextArgument.target)
       THEN CallReturns(Returned("", highlightUnescaped(NextArgument.sentence,
                                                        NextArgument.target)))
       ELSE CallReturns(Thrown)
    /\ UNCHANGED fs

CallCreateFilePath ==
    /\ CallPending("createFilePath")
    /\ LET ctx == createFilePath([Context EXCEPT
                                     !.loc.chatGPTsentence = NextArgument.sentence])
       IN  /\ fs' = ctx.fs
           /\ CallReturns(Returned("", ctx.loc.audioFilePath))

FunctionNext ==
    \/ CallDetermineInputType
    \/ CallHighlightTargetText
    \/ CallFormattedSentence
    \/ CallCreateFilePath

FunctionSpec == FunctionInit /\ [][FunctionNext]_vars

----------------------------------------------------------------------------
(* C14: determineInputType returns, for every text, one of word, phrase    *)
(* and sentence and never fails: word exactly when the trimmed text is a   *)
(* single token made solely of letters, digits, hyphens and apostrophes;   *)
(* otherwise sentence exactly when the trimmed text ends in ".", "!" or    *)
(* "?" and holds at least two separate word tokens; otherwise phrase.      *)
C14_Letter == UpperCase \cup LowerCase \cup NonAsciiLetter

C14_IsToken(s) ==
    /\ s # <<>>
    /\ \A i \in 1..Len(s) : s[i] \in C14_Letter \cup Digit \cup {"-", "'"}

\* the word tokens of a text: its maximal runs of letters and digits
C14_WordTokens(s) ==
    {i \in 1..Len(s) :
        /\ s[i] \in C14_Letter \cup Digit
        /\ i = 1 \/ s[i - 1] \notin C14_Letter \cup Digit}

C14_Kind(text) ==
    LET trimmed == trim(text)
    IN  IF C14_IsToken(trimmed) THEN "word"
        ELSE IF EndsWithTerminator(trimmed) /\ Cardinality(C14_WordTokens(trimmed)) >= 2
             THEN "sentence"
             ELSE "phrase"

C14_ClassifiesAsStated ==
    (call.fn = "determineInputType" /\ call.results # <<>>) =>
        /\ ~call.results[1].threw
        /\ call.results[1].kind \in {"word", "phrase", "sentence"}
        /\ call.results[1].kind = C14_Kind(call.args[1].sentence)

----------------------------------------------------------------------------
(* C15: the highlighting returns the sentence unchanged when the target    *)
(* does not occur in it; when the target is a single word it wraps in bold *)
(* markup the occurrences bounded by word boundaries and no other (not the *)
(* one inside a longer word); otherwise it wraps every occurrence of the   *)
(* literal target, compared without regard to case, the metacharacters of  *)
(* the target standing for themselves.  Stated of highlightTargetText and  *)
(* of the highlighting of src/index.js.                                    *)
C15_OccursAt(s, i, t) ==
    /\ i + Len(t) - 1 <= Len(s)
    /\ \A k \in 1..Len(t) : SameCharIgnoreCase(s[i + k - 1], t[k])

C15_Occurs(s, t) == \E i \in 1..Len(s) : C15_OccursAt(s, i, t)

C15_Bounded(s, i, t) == WordBoundary(s, i) /\ WordBoundary(s, i + Len(t))

\* the sentence with each occurrence, from left to right, inside <b> </b>
RECURSIVE C15_Wrapped(_, _, _, _)
C15_Wrapped(s, i, t, bounded) ==
    IF i > Len(s) THEN <<>>
    ELSE IF C15_OccursAt(s, i, t) /\ (bounded => C15_Bounded(s, i, t))
         THEN <<"<b>">> \o SubSeq(s, i, i + Len(t) - 1) \o <<"</b>">>
              \o C15_Wrapped(s, i + Len(t), t, bounded)
         ELSE <<s[i]>> \o C15_Wrapped(s, i + 1, t, bounded)

C15_Highlighted(s, t) ==
    IF ~C15_Occurs(s, t) THEN s ELSE C15_Wrapped(s, 1, t, IsSingleWord(t))

C15_HighlightsAsStated ==
    (call.fn \in {"highlightTargetText", "formattedSentence"} /\ call.results # <<>>) =>
        /\ ~call.results[1].threw
        /\ call.results[1].text = C15_Highlighted(call.args[1].sentence, call.args[1].target)

----------------------------------------------------------------------------
(* C16: createFilePath called for two sentences in turn: the same sentence *)
(* yields the same path, two different sentences yield different paths,    *)
(* each path is speech_files/ followed by the sentence with every          *)
(* whitespace run replaced by one hyphen and every character outside       *)
(* [a-zA-Z0-9-] removed, followed by .mp3, and the directory exists after  *)
(* the call.                                                               *)
C16_Kept(s, i) ==
    IF s[i] \in WhiteSpace
    THEN IF i > 1 /\ s[i - 1] \in WhiteSpace THEN <<>> ELSE <<"-">>
    ELSE IF s[i] \in UpperCase \cup LowerCase \cup Digit \cup {"-"} THEN <<s[i]>>
    ELSE <<>>

RECURSIVE C16_Sanitized(_, _)
C16_Sanitized(s, n) == IF n = 0 THEN <<>> ELSE C16_Sanitized(s, n - 1) \o C16_Kept(s, n)

C16_Path(s) == <<"speech_files", "/">> \o C16_Sanitized(s, Len(s)) \o <<".mp3">>

----------------------------------------------------------------------------
(* C17: the process goes from awaiting-args to running (or, by a fatal     *)
(* error before the first request, to failed) and from running to done or  *)
(* failed, where it stays.  When every external call resolves or fails in  *)
(* the end, every run reaches done or failed.  While a call is             *)
(* outstanding the run is in running, and as long as that call has not     *)
(* settled (the response to the speech request may have arrived with its   *)
(* stream still being read) nothing else of the run changes: no later      *)
(* request is issued, no log line or file written, no exit taken, since no *)
(* step of the program times out or cancels.                               *)
C17_Transition ==
    \/ proc' = proc
    \/ proc.state = "awaiting-args" /\ proc'.state \in {"running", "failed"}
    \/ proc.state = "running" /\ proc'.state \in {"done", "failed"}

C17_Stalled ==
    (inflight \cap inflight' # {}) => UNCHANGED <<proc, requests, stderr, locals, fs>>

C17_RunEndsUnlessACallHangs ==
    /\ <>(proc.state \in {"done", "failed"})
    /\ [][C17_Transition]_vars
    /\ [](proc.exited <=> proc.state \in {"done", "failed"})
    /\ [][proc.exited => UNCHANGED vars]_vars
    /\ [](inflight # {} => proc.state = "running")
    /\ [][C17_Stalled]_vars

\* a run of the latest controller that read its audio stream to the end,
\* created a deck, submitted both notes and finished
C17_Witness ==
    /\ variant = "part_001"
    /\ proc.state = "done"
    /\ inflight = {}
    /\ fs.written # {}
    /\ Issued("createDeck")
    /\ locals.bilingualResult # "none"

----------------------------------------------------------------------------
(* C18 (part_001): when sentence generation has returned the empty string  *)
(* and the definition template is there to build the prompt from, the      *)
(* definition request has been sent, exactly once, and no translation,     *)
(* speech, deckNames, createDeck or addNote request is ever sent: the      *)
(* sentence is tested only after the definition call, and the run then     *)
(* ends normally.                                                          *)
C18_EmptySentence ==
    /\ variant = "part_001"
    /\ GenerationFailed
    /\ env.definitionPrompt # "absent"

C18_DefinitionBeforeEmptinessTest ==
    C18_EmptySentence =>
        /\ Cardinality(RequestsFor("definition")) = 1
        /\ requests[Len(requests)].purpose = "definition"
        /\ \A p \in {"translation", "speech", "deckNames", "createDeck", "addNote"} :
            ~Issued(p)
        /\ fs.written = {} /\ ~fs.dirCreated
        /\ Settled("definition") => proc.state = "done"

C18_Witness ==
    /\ C18_EmptySentence
    /\ response.for = "definition"
    /\ response.kind = "ok"
    /\ locals.textDefinition # <<>>
    /\ proc.state = "done"

----------------------------------------------------------------------------
(* C19 (part_001): when the target text starts and ends with a double      *)
(* quote, run strips the quotes, sends no sentence-generation request,     *)
(* takes the unquoted text as the sentence of the definition, translation  *)
(* and speech steps and of the audio path, labels the input phrase         *)
(* whatever determineInputType would answer, and sends nothing to the      *)
(* flashcard store: no deckNames, no createDeck, no addNote.               *)
C19_Unquoted == SubSeq(argv.targetText.text, 2, Len(argv.targetText.text) - 1)

C19_QuotedRun ==
    /\ variant = "part_001"
    /\ ~ArgumentsMissing(argv)
    /\ startsWith(argv.targetText.text, Quote)
    /\ endsWith(argv.targetText.text, Quote)
    /\ pc # "start"

C19_QuotedBranch ==
    C19_QuotedRun =>
        /\ locals.isQuoted
        /\ locals.actualText = C19_Unquoted
        /\ locals.chatGPTsentence = C19_Unquoted
        /\ locals.inputType = "phrase"
        /\ ~Issued("sentence")
        /\ \A i \in 1..Len(requests) :
            /\ requests[i].service # "store"
            /\ requests[i].purpose \in {"definition", "translation", "speech"}
            /\ (requests[i].purpose = "definition" /\ env.definitionPrompt = "set") =>
                requests[i].prompt.target = C19_Unquoted
            /\ requests[i].purpose = "translation" =>
                requests[i].prompt.sentence = C19_Unquoted
            /\ requests[i].purpose = "speech" => requests[i].text = C19_Unquoted
        /\ locals.audioFilePath \in {<<>>, createFilePathResult(C19_Unquoted)}
        /\ locals.primaryResult = "none" /\ locals.bilingualResult = "none"
        /\ proc.state = "done" =>
            /\ Settled("definition") /\ Settled("translation")
            /\ locals.audioFilePath = createFilePathResult(C19_Unquoted)

\* a quoted single word: the classifier would have answered word; the run
\* has finished with the audio written and nothing sent to the store
C19_Witness ==
    /\ C19_QuotedRun
    /\ determineInputType(locals.actualText) = "word"
    /\ proc.state = "done"
    /\ Settled("speech")
    /\ locals.audioFilePath \in fs.written

----------------------------------------------------------------------------
(* C20 (part_001, unquoted branch, sentence not empty): whatever the       *)
(* primary addNote settled with (accepted, rejected by the store, failed   *)
(* in transport), the bilingual note is submitted after it; each addNote   *)
(* follows the deckNames request (and the createDeck request, if any) of   *)
(* an ensureDeckExists call for the deck of that note; and both notes      *)
(* carry the audio path createFilePath derived from the sentence.          *)
C20_NotesOf(field) == {i \in RequestsFor("addNote") : requests[i].note.audioField = field}

\* the addNote request i closes a publish call of its own for the deck
C20_OwnEnsureDeckExists(i, deck) ==
    /\ requests[i].deck = deck
    /\ requests[i].note.deckName = deck
    /\ i > 1
    /\ \/ requests[i - 1].purpose = "deckNames" /\ requests[i - 1].deck = deck
       \/ /\ i > 2
          /\ requests[i - 1].purpose = "createDeck" /\ requests[i - 1].deck = deck
          /\ requests[i - 2].purpose = "deckNames" /\ requests[i - 2].deck = deck

C20_BilingualAfterPrimary ==
    (variant = "part_001" /\ ~locals.isQuoted /\ GenerationSucceeded) =>
        /\ \A i \in C20_NotesOf("Front") : C20_OwnEnsureDeckExists(i, PrimaryDeck)
        /\ \A j \in C20_NotesOf("Back") :
            /\ C20_OwnEnsureDeckExists(j, BilingualDeck)
            /\ \E i \in C20_NotesOf("Front") : i < j /\ i \notin inflight
            /\ locals.primaryResult \in {"true", "undefined", "false"}
        /\ \A i \in RequestsFor("addNote") :
            /\ requests[i].note.audioPath = createFilePathResult(locals.chatGPTsentence)
            /\ requests[i].note.audioPath = locals.audioFilePath
        /\ locals.primaryResult # "none" =>
            \E i \in C20_NotesOf("Front") :
                /\ Len(requests) > i
                /\ requests[i + 1].purpose = "deckNames"
                /\ requests[i + 1].deck = BilingualDeck
        /\ proc.state = "done" =>
            /\ Cardinality(C20_NotesOf("Front")) = 1
            /\ Cardinality(C20_NotesOf("Back")) = 1
            /\ inflight = {}

\* the primary note failed in transport and the bilingual note was accepted
C20_Witness ==
    /\ variant = "part_001"
    /\ GenerationSucceeded
    /\ locals.primaryResult = "false"
    /\ locals.bilingualResult = "true"
    /\ Issued("createDeck")
    /\ proc.state = "done"

----------------------------------------------------------------------------
(* C21: a difficulty code that is not the empty string and not one of a2,  *)
(* b1, b2 is not rejected: run prints no usage message; where run builds   *)
(* the sentence prompt from the phrase template the request carries the    *)
(* label beginner (A2), as for a2; where it builds it from a word template *)
(* the prompt is the empty string and the sentence-generation request is   *)
(* issued with it.  The empty string, which is no member of {a2, b1, b2}   *)
(* either, is rejected with the usage error like an absent argument.       *)
C21_TargetGiven == argv.targetText.given /\ argv.targetText.text # <<>>

C21_UsageErrorRaised == \E k \in 1..Len(stderr) : stderr[k] = "Usage:"

C21_WordTemplatePath ==
    \/ variant = "index"
    \/ variant = "part_002" /\ determineInputType(argv.targetText.text) = "word"

C21_PhraseTemplatePath ==
    \/ variant = "part_002" /\ determineInputType(argv.targetText.text) # "word"
    \/ variant = "part_001" /\ ~IsQuoted(argv.targetText.text)

C21_NotRejected ==
    /\ ~C21_UsageErrorRaised
    /\ pc # "start" =>
        /\ C21_WordTemplatePath => Issued("sentence")
        /\ (C21_PhraseTemplatePath /\ env.phrasePrompt # "absent") => Issued("sentence")
    /\ \A i \in RequestsFor("sentence") :
        /\ C21_WordTemplatePath => requests[i].prompt = NoPrompt
        /\ (C21_PhraseTemplatePath /\ env.phrasePrompt = "set") =>
            requests[i].prompt = [template |-> "PHRASE_SENTENCE_PROMPT",
                                  target |-> locals.actualText,
                                  level |-> "beginner (A2)",
                                  sentence |-> <<>>]

C21_NonEmptyUnknownDifficultyNotRejected ==
    /\ (C21_TargetGiven /\ argv.difficulty \notin {"undefined", "", "a2", "b1", "b2"}) =>
        C21_NotRejected
    /\ (argv.difficulty = "" /\ pc # "start") =>
        /\ C21_UsageErrorRaised
        /\ proc = [state |-> "failed", exited |-> TRUE, exitCode |-> 1]
        /\ requests = <<>>

\* the statement for every code outside {a2, b1, b2}, the empty one included
C21_UnknownDifficultyNeverRejected ==
    (C21_TargetGiven /\ argv.difficulty \notin {"undefined", "a2", "b1", "b2"}) =>
        C21_NotRejected

\* a word with the code c1: the run ended normally on the empty prompt
C21_Witness ==
    /\ argv.difficulty = "c1"
    /\ variant = "part_002"
    /\ C21_WordTemplatePath
    /\ \E i \in RequestsFor("sentence") : requests[i].prompt = NoPrompt
    /\ GenerationSucceeded
    /\ proc.state = "done"

====
